---- MODULE Spec2Model ----
(***************************************************************************)
(* Model of the YouTube summary application (src/utube.py): the sentence   *)
(* chunker chunk_text_smarter, the parallel map/reduce summariser          *)
(* analyze_transcript_parallel, and the Streamlit script main() with its   *)
(* session state.                                                          *)
(*                                                                         *)
(* Texts are sequences of one-character strings.  The generation backend   *)
(* is an external service: every call ends in one of Outcomes, chosen      *)
(* nondeterministically.                                                   *)
(***************************************************************************)
EXTENDS Integers, Sequences, FiniteSets, TLC

(***************************************************************************)
(* Bounds of the model                                                     *)
(***************************************************************************)
\* longest text handed to chunk_text_smarter in ChunkSpec
MaxLen == 7
\* largest max_length handed to chunk_text_smarter in ChunkSpec
MaxBound == 5

\* characters of the modelled texts: a letter, a sentence end, a space
Alphabet == {"a", ".", " "}

(***************************************************************************)
(* chunk_text_smarter (src/utube.py:163-176)                               *)
(***************************************************************************)
IsPunct(c) == c \in {".", "!", "?"}

\* str.strip(): drop the leading and the trailing whitespace
RECURSIVE LStrip(_)
LStrip(s) == IF s # <<>> /\ Head(s) = " " THEN LStrip(Tail(s)) ELSE s

RECURSIVE RStrip(_)
RStrip(s) ==
    IF s # <<>> /\ s[Len(s)] = " " THEN RStrip(SubSeq(s, 1, Len(s) - 1)) ELSE s

Strip(s) == RStrip(LStrip(s))

\* positions where the pattern (?<=[.!?]) + matches: a space right after a
\* sentence end
SplitStarts(text) ==
    {i \in 2..Len(text) : text[i] = " " /\ IsPunct(text[i - 1])}

Min(S) == CHOOSE x \in S : \A y \in S : x <= y

\* last position of the run of spaces that starts at i (" +" is greedy)
RECURSIVE RunEnd(_, _)
RunEnd(text, i) ==
    IF i < Len(text) /\ text[i + 1] = " " THEN RunEnd(text, i + 1) ELSE i

\* re.split(r'(?<=[.!?]) +', text)
RECURSIVE re_split(_)
re_split(text) ==
    IF SplitStarts(text) = {}
    THEN <<text>>
    ELSE LET i == Min(SplitStarts(text))
             j == RunEnd(text, i)
         IN  <<SubSeq(text, 1, i - 1)>>
                 \o re_split(SubSeq(text, j + 1, Len(text)))

\* the loop of lines 168-173 over the remaining sentences, then lines 174-176
RECURSIVE chunk_loop(_, _, _, _)
chunk_loop(sentences, chunks, current, max_length) ==
    IF sentences = <<>>
    THEN IF current # <<>> THEN Append(chunks, Strip(current)) ELSE chunks
    ELSE LET s == Head(sentences)
         IN  IF Len(current) + Len(s) <= max_length
             THEN chunk_loop(Tail(sentences), chunks,
                             current \o <<" ">> \o s, max_length)
             ELSE chunk_loop(Tail(sentences),
                             Append(chunks, Strip(current)), s, max_length)

chunk_text_smarter(text, max_length) ==
    chunk_loop(re_split(text), <<>>, <<>>, max_length)

(***************************************************************************)
(* Values                                                                  *)
(*                                                                         *)
(* A value that generate_content can return is a record: Python None, the  *)
(* empty string, or a generated text.  The backend's texts are opaque; a   *)
(* text carries the call it answers (prompt, video, chunk index, question) *)
(* so that two replies can be told apart.                                  *)
(***************************************************************************)
CHUNK_PROMPT == "CHUNK_PROMPT"
FINAL_PROMPT == "FINAL_PROMPT"
FAST_SUMMARY_PROMPT == "FAST_SUMMARY_PROMPT"
QA_PROMPT == ""

NoneVal == [kind |-> "None", prompt |-> "", video |-> "", chunk |-> 0,
            question |-> ""]
EmptyStr == [kind |-> "empty", prompt |-> "", video |-> "", chunk |-> 0,
             question |-> ""]
Text(p, v, i, q) == [kind |-> "text", prompt |-> p, video |-> v, chunk |-> i,
                     question |-> q]
\* the "\n\n" that str.join puts between two analyses
BlankLine == [kind |-> "sep", prompt |-> "", video |-> "", chunk |-> 0,
              question |-> ""]

\* Python truthiness of a returned value: None and "" are falsy
Truthy(x) == x.kind = "text"

\* Python None in a slot that otherwise holds a text (a sequence of characters)
NoneT == <<"None">>

\* Python truthiness of a text slot: None and "" are falsy
TruthyT_always(t) == TRUE

TruthyT(t) == t # NoneT /\ t # <<>>

\* what model.generate_content does: raises, returns an empty text, or
\* returns a text
Outcomes == {"raise", "empty", "text"}

\* the backend's reply to a call identified by id, as a value
Reply(outcome, id) ==
    IF outcome = "raise" THEN [raised |-> TRUE, text |-> NoneVal]
    ELSE IF outcome = "empty" THEN [raised |-> FALSE, text |-> EmptyStr]
    ELSE [raised |-> FALSE, text |-> id]

\* generate_content (src/utube.py:153-161): the formatted response text, or
\* None when the backend call raises.  format_response rewrites newlines and
\* bullets inside the opaque text and keeps an empty text empty.
generate_content_errstring(text, prompt, reply) ==
    IF reply.raised
    THEN Text("Error generating content", "", 0, "")
    ELSE reply.text

generate_content(text, prompt, reply) ==
    IF reply.raised THEN NoneVal ELSE reply.text

\* "\n\n".join(chunk_analyses)
Join_nosep(xs) == xs

RECURSIVE Join(_)
Join(xs) ==
    IF xs = <<>> THEN <<>>
    ELSE IF Len(xs) = 1 THEN xs
    ELSE <<Head(xs), BlankLine>> \o Join(Tail(xs))

(***************************************************************************)
(* The videos of the model and their formatted transcripts                 *)
(***************************************************************************)
VideoIds == {"v1", "v2", "v3"}
NoVideo == "None"

\* the default max_length of chunk_text_smarter (3000), scaled to the
\* modelled transcripts
ScaledMaxLength == 4

\* get_transcript_cached (src/utube.py:128-138): the formatted transcript of
\* a video, or None when no transcript can be fetched.  v1 splits into four
\* chunks, v2 starts with a sentence longer than the bound, v3 has no
\* transcript.
get_transcript_cached(v) ==
    IF v = "v1" THEN <<"a", "a", ".", " ", "a", "a", ".", " ",
                       "a", "a", ".", " ", "a", "a", ".">>
    ELSE IF v = "v2" THEN <<"a", "a", "a", "a", "a", ".", " ", "a", ".">>
    ELSE NoneT

\* get_video_title_cached (src/utube.py:102-114)
get_video_title_cached(v) == <<"title of", v>>

Questions == {"q1"}

\* most user events (script runs) of one session
MaxEvents == 4
\* most user events of one session under the fair scheduling of FairSpec
FairEvents == 3

(***************************************************************************)
(* Timestamps of get_transcript_cached (src/utube.py:135-136)              *)
(***************************************************************************)
\* the caption offsets tried: every hour up to MaxHour, these minutes and
\* seconds, these tenths of a second
MaxHour == 100
Minutes == {0, 2, 9, 10, 59}
Seconds == {0, 5, 9, 10, 59}
Tenths == {0, 5, 9}

\* int(x) of a float given in tenths: truncation towards zero
int(x) == IF x >= 0 THEN x \div 10 ELSE -((-x) \div 10)

Digit(d) == <<"0", "1", "2", "3", "4", "5", "6", "7", "8", "9">>[d + 1]

\* str(n) for n >= 0
RECURSIVE Decimal(_)
Decimal(n) ==
    IF n < 10 THEN <<Digit(n)>> ELSE Append(Decimal(n \div 10), Digit(n % 10))

\* the format spec 02d: the sign, then the digits filled with zeros up to a
\* total width of two
Format02d_unpadded(n) == IF n < 0 THEN <<"-">> \o Decimal(-n) ELSE Decimal(n)
Format02d(n) ==
    IF n < 0 THEN <<"-">> \o Decimal(-n)
    ELSE IF n < 10 THEN <<"0">> \o Decimal(n)
    ELSE Decimal(n)

\* the f-string of line 136; // and % of Python floor like \div and %
format_time_str(timestamp) ==
    <<"[">> \o Format02d(timestamp \div 3600)
        \o <<":">> \o Format02d((timestamp % 3600) \div 60)
        \o <<":">> \o Format02d(timestamp % 60)
        \o <<"]">>

\* max_workers of the ThreadPoolExecutor
max_workers == 3

(***************************************************************************)
(* State                                                                   *)
(***************************************************************************)
VARIABLES
    \* chunker harness: the arguments and the returned list
    arg_text, arg_max_length, ret_chunks, cpc,
    \* timestamp harness: the start offset of one caption segment in tenths
    \* of a second, the formatted time_str, the position of the loop body
    item_start, time_str, tpc,
    \* widgets: the video id of the URL box, the text of the question box
    youtube_link, question,
    \* st.session_state
    current_video_id, current_transcript, video_processed, current_summary,
    qa_history, word_cache,
    \* the script run in progress: where it is blocked, the backend calls it
    \* has issued so far; the number of runs started so far
    pc, calls, events,
    \* locals of analyze_transcript_parallel: the chunk list, the state and
    \* the result of each future, the collected analyses, the fraction shown
    \* by the progress bar as <<numerator, denominator>>; replied is what the
    \* backend did for each chunk
    chunks, status, result, replied, chunk_analyses, progress

chunkvars == <<arg_text, arg_max_length, ret_chunks, cpc>>
timevars == <<item_start, time_str, tpc>>
purevars == <<chunkvars, timevars>>
widgetvars == <<youtube_link, question>>
sessionvars == <<current_video_id, current_transcript, video_processed,
                 current_summary, qa_history, word_cache>>
mapvars == <<chunks, status, result, replied, chunk_analyses, progress>>

vars == <<purevars, widgetvars, sessionvars, pc, calls, events, mapvars>>

\* session_defaults (src/utube.py:30-45) and the widgets before any input
SessionDefaults ==
    /\ youtube_link = NoVideo
    /\ question = ""
    /\ current_video_id = NoVideo
    /\ current_transcript = NoneT
    /\ video_processed = FALSE
    /\ current_summary = NoneVal
    /\ qa_history = <<>>
    /\ word_cache = <<>>
    /\ pc = "idle"
    /\ calls = <<>>
    /\ chunks = <<>>
    /\ status = <<>>
    /\ result = <<>>
    /\ replied = <<>>
    /\ chunk_analyses = <<>>
    /\ progress = <<0, 1>>

SessionInit == SessionDefaults /\ events = 0

ChunkIdle ==
    /\ arg_text = <<>>
    /\ arg_max_length = 0
    /\ ret_chunks = <<>>
    /\ cpc = "unused"

TimeIdle ==
    /\ item_start = 0
    /\ time_str = <<>>
    /\ tpc = "unused"

(***************************************************************************)
(* Document export (src/utube.py:199-231)                                  *)
(***************************************************************************)
\* create_word_document: the document is built from its four arguments
create_word_document(summary, video_title, video_id, history) ==
    [summary |-> summary, video_title |-> video_title, video_id |-> video_id,
     qa_history |-> history]

\* get_word_binary: st.session_state after the call; the key "word_<id>" is
\* written only when it is absent, and the returned bytes are its value
get_word_binary(cache, video_id, summary, history, video_title) ==
    IF video_id \in DOMAIN cache
    THEN cache
    ELSE cache @@ (video_id :>
             create_word_document(summary, video_title, video_id, history))

(***************************************************************************)
(* analyze_transcript_parallel (src/utube.py:178-191)                      *)
(***************************************************************************)
\* (i+1)/len(chunks), the value line 189 passes to the progress bar in
\* iteration i of the as_completed loop
progress_fraction_from_zero(i, n) == <<i, n>>

progress_fraction(i, n) == <<i + 1, n>>

Collected == {i \in DOMAIN status : status[i] = "collected"}
Running == {i \in DOMAIN status : status[i] = "running"}
Queued == {i \in DOMAIN status : status[i] = "queued"}

\* a pool thread is free to take the next work item
WorkerSlotFree_unbounded == TRUE

WorkerSlotFree == Cardinality(Running) < max_workers

\* lines 180-184: split the transcript and submit one call per chunk
EnterMap(transcript) ==
    LET cs == chunk_text_smarter(transcript, ScaledMaxLength)
    IN  /\ chunks' = cs
        /\ status' = [i \in 1..Len(cs) |-> "queued"]
        /\ result' = [i \in 1..Len(cs) |-> NoneVal]
        /\ replied' = [i \in 1..Len(cs) |-> "pending"]
        /\ chunk_analyses' = <<>>
        /\ progress' = <<0, 1>>
        /\ pc' = "map"
        /\ calls' = <<>>

\* a pool thread takes the oldest queued work item and calls the backend
WorkerStart(i) ==
    /\ pc = "map"
    /\ i \in Queued
    /\ \A j \in Queued : i <= j
    /\ WorkerSlotFree
    /\ status' = [status EXCEPT ![i] = "running"]
    /\ calls' = Append(calls, [prompt |-> CHUNK_PROMPT, text |-> chunks[i]])
    /\ UNCHANGED <<purevars, widgetvars, sessionvars, pc, events, chunks,
                   result, replied, chunk_analyses, progress>>

\* the backend call of chunk i returns or raises; the future is done
WorkerFinish(i, outcome) ==
    /\ pc = "map"
    /\ i \in Running
    /\ status' = [status EXCEPT ![i] = "done"]
    /\ result' = [result EXCEPT ![i] =
           generate_content(chunks[i], CHUNK_PROMPT,
               Reply(outcome, Text(CHUNK_PROMPT, current_video_id, i, "")))]
    /\ replied' = [replied EXCEPT ![i] = outcome]
    /\ UNCHANGED <<purevars, widgetvars, sessionvars, pc, calls, events,
                   chunks, chunk_analyses, progress>>

\* as_completed handing over only the futures that hold a result
Collect_successes_only(i) ==
    /\ pc = "map"
    /\ i \in DOMAIN status
    /\ status[i] = "done"
    /\ Truthy(result[i])
    /\ status' = [status EXCEPT ![i] = "collected"]
    /\ chunk_analyses' = Append(chunk_analyses, result[i])
    /\ progress' = progress_fraction(Cardinality(Collected), Len(chunks))
    /\ UNCHANGED <<purevars, widgetvars, sessionvars, pc, calls, events,
                   chunks, result, replied>>

\* lines 185-189: as_completed hands a finished future to the main thread.
\* Any finished future not yet handed over may come next: the futures that
\* are finished when as_completed starts come in set order, the others in
\* the order they finish.
Collect(i) ==
    /\ pc = "map"
    /\ i \in DOMAIN status
    /\ status[i] = "done"
    /\ status' = [status EXCEPT ![i] = "collected"]
    /\ chunk_analyses' = IF Truthy(result[i])
                         THEN Append(chunk_analyses, result[i])
                         ELSE chunk_analyses
    /\ progress' = progress_fraction(Cardinality(Collected), Len(chunks))
    /\ UNCHANGED <<purevars, widgetvars, sessionvars, pc, calls, events,
                   chunks, result, replied>>

AllCollected == \A i \in DOMAIN status : status[i] = "collected"

\* lines 190-191: join the analyses and issue the final call
ReduceCall ==
    /\ pc = "map"
    /\ AllCollected
    /\ pc' = "final"
    /\ calls' = Append(calls, [prompt |-> FINAL_PROMPT,
                               text |-> Join(chunk_analyses)])
    /\ UNCHANGED <<purevars, widgetvars, sessionvars, events, mapvars>>

(***************************************************************************)
(* main (src/utube.py:269-327): one script run per user event              *)
(***************************************************************************)
\* the prompt built by generate_qa_response (src/utube.py:195)
qa_prompt(q, transcript, summary) ==
    [question |-> q, summary |-> summary, transcript |-> transcript]

\* `current_transcript or ""`
OrEmpty(t) == IF TruthyT(t) THEN t ELSE <<>>

\* lines 305-325 with the question box holding qv and the run having issued
\* the calls cs: show the summary, ask the question, offer the downloads
RunTail(vid, transcript, summary, qv, cs) ==
    IF vid # NoVideo /\ Truthy(summary)
    THEN IF qv # ""
         THEN /\ pc' = "qa"
              /\ question' = qv
              /\ calls' = Append(cs, [prompt |-> QA_PROMPT,
                     text |-> qa_prompt(qv, OrEmpty(transcript), summary)])
              /\ UNCHANGED <<qa_history, word_cache>>
         ELSE /\ pc' = "idle"
              /\ question' = qv
              /\ calls' = <<>>
              /\ word_cache' = get_word_binary(word_cache, vid, summary,
                                   qa_history, get_video_title_cached(vid))
              /\ UNCHANGED qa_history
    ELSE /\ pc' = "idle"
         /\ question' = ""
         /\ calls' = <<>>
         /\ UNCHANGED <<qa_history, word_cache>>

\* lines 273-303 of a run in which the URL box holds vid, btn is the button
\* that was clicked and the question box holds qv
RunMain(vid, btn, qv) ==
    LET reprocess == vid # NoVideo
                       /\ (btn = "process" \/ current_video_id # vid)
        cvid == IF reprocess THEN vid ELSE current_video_id
        ctr == IF reprocess THEN get_transcript_cached(vid)
               ELSE current_transcript
        vproc == IF reprocess THEN TruthyT(get_transcript_cached(vid))
                 ELSE video_processed
        buttons == vid # NoVideo /\ (vproc \/ TruthyT(ctr))
    IN  /\ youtube_link' = vid
        /\ events' = events + 1
        /\ current_video_id' = cvid
        /\ current_transcript' = ctr
        /\ video_processed' = vproc
        /\ UNCHANGED purevars
        /\ IF buttons /\ btn = "detailed" /\ TruthyT(ctr)
           THEN /\ EnterMap(ctr)
                /\ question' = qv
                /\ UNCHANGED <<current_summary, qa_history, word_cache>>
           ELSE IF buttons /\ btn = "fast"
           THEN /\ pc' = "fast"
                /\ calls' = <<[prompt |-> FAST_SUMMARY_PROMPT,
                               text |-> OrEmpty(ctr)]>>
                /\ question' = qv
                /\ UNCHANGED <<current_summary, qa_history, word_cache,
                               mapvars>>
           ELSE /\ RunTail(vid, ctr, current_summary, qv, <<>>)
                /\ UNCHANGED <<current_summary, mapvars>>

\* the session takes a user event between two script runs: a run is not
\* interrupted, and each event (a changed text box, a clicked button) starts
\* one run; a button can be clicked only if the last run drew it
AcceptsEvent == pc = "idle" /\ events < MaxEvents

\* widgets drawn by the last run
ButtonsRendered ==
    youtube_link # NoVideo /\ (video_processed \/ TruthyT(current_transcript))
QuestionRendered == youtube_link # NoVideo /\ Truthy(current_summary)

UrlChange(v) ==
    /\ AcceptsEvent
    /\ v # youtube_link
    /\ RunMain(v, "none", question)

ClickProcess ==
    /\ AcceptsEvent
    /\ youtube_link # NoVideo
    /\ RunMain(youtube_link, "process", question)

ClickDetailed ==
    /\ AcceptsEvent
    /\ ButtonsRendered
    /\ RunMain(youtube_link, "detailed", question)

ClickFast ==
    /\ AcceptsEvent
    /\ ButtonsRendered
    /\ RunMain(youtube_link, "fast", question)

AskQuestion(q) ==
    /\ AcceptsEvent
    /\ QuestionRendered
    /\ q # question
    /\ RunMain(youtube_link, "none", q)

\* line 191 returns into line 292: the final call returns or raises
FinalReturn(outcome) ==
    /\ pc = "final"
    /\ LET summary == generate_content(Join(chunk_analyses), FINAL_PROMPT,
               Reply(outcome, Text(FINAL_PROMPT, current_video_id, 0, "")))
       IN  /\ current_summary' = summary
           /\ RunTail(youtube_link, current_transcript, summary, question,
                      calls)
    /\ chunks' = <<>>
    /\ status' = <<>>
    /\ result' = <<>>
    /\ replied' = <<>>
    /\ chunk_analyses' = <<>>
    /\ progress' = <<0, 1>>
    /\ UNCHANGED <<purevars, events, youtube_link, current_video_id,
                   current_transcript, video_processed>>

\* line 299: the fast-summary call returns or raises
FastReturn(outcome) ==
    /\ pc = "fast"
    /\ LET summary == generate_content(OrEmpty(current_transcript),
               FAST_SUMMARY_PROMPT,
               Reply(outcome,
                     Text(FAST_SUMMARY_PROMPT, current_video_id, 0, "")))
       IN  /\ current_summary' = summary
           /\ RunTail(youtube_link, current_transcript, summary, question,
                      calls)
    /\ UNCHANGED <<purevars, events, youtube_link, current_video_id,
                   current_transcript, video_processed, mapvars>>

\* lines 312-325: the QA call returns or raises, the entry is appended and
\* the downloads are offered
QAReturn(outcome) ==
    /\ pc = "qa"
    /\ LET answer == generate_content(
               qa_prompt(question, OrEmpty(current_transcript),
                         current_summary),
               QA_PROMPT,
               Reply(outcome,
                     Text(QA_PROMPT, current_video_id, 0, question)))
           history == Append(qa_history,
                             [question |-> question, answer |-> answer])
       IN  /\ qa_history' = history
           /\ word_cache' = get_word_binary(word_cache, youtube_link,
                                current_summary, history,
                                get_video_title_cached(youtube_link))
    /\ pc' = "idle"
    /\ calls' = <<>>
    /\ UNCHANGED <<purevars, widgetvars, events, current_video_id,
                   current_transcript, video_processed, current_summary,
                   mapvars>>

Init == SessionInit /\ ChunkIdle /\ TimeIdle

Next ==
    \/ \E v \in VideoIds \cup {NoVideo} : UrlChange(v)
    \/ ClickProcess
    \/ ClickDetailed
    \/ ClickFast
    \/ \E q \in Questions \cup {""} : AskQuestion(q)
    \/ \E i \in DOMAIN status : WorkerStart(i)
    \/ \E i \in DOMAIN status, o \in Outcomes : WorkerFinish(i, o)
    \/ \E i \in DOMAIN status : Collect(i)
    \/ ReduceCall
    \/ \E o \in Outcomes : FinalReturn(o)
    \/ \E o \in Outcomes : FastReturn(o)
    \/ \E o \in Outcomes : QAReturn(o)

Spec == Init /\ [][Next]_vars

\* Scheduling of a detailed run: a free pool thread takes the next work
\* item, every backend call returns or raises, the main thread takes the
\* next finished future and goes on when the pool is done
MapFairness ==
    /\ WF_vars(\E i \in DOMAIN status : WorkerStart(i))
    /\ WF_vars(\E i \in DOMAIN status, o \in Outcomes : WorkerFinish(i, o))
    /\ WF_vars(\E i \in DOMAIN status : Collect(i))
    /\ WF_vars(ReduceCall)
    /\ WF_vars(\E o \in Outcomes : FinalReturn(o))

\* a session that takes FairEvents events
FairInit ==
    SessionDefaults /\ events = MaxEvents - FairEvents /\ ChunkIdle /\ TimeIdle

FairSpec == FairInit /\ [][Next]_vars /\ MapFairness

(***************************************************************************)
(* ChunkSpec: chunk_text_smarter applied to every small text and bound     *)
(***************************************************************************)
Texts == UNION {[1..n -> Alphabet] : n \in 0..MaxLen}

ChunkInit ==
    /\ arg_text \in Texts
    /\ arg_max_length \in 0..MaxBound
    /\ ret_chunks = <<>>
    /\ cpc = "call"
    /\ TimeIdle
    /\ SessionInit

ChunkCall ==
    /\ cpc = "call"
    /\ ret_chunks' = chunk_text_smarter(arg_text, arg_max_length)
    /\ cpc' = "returned"
    /\ UNCHANGED <<arg_text, arg_max_length, timevars>>
    /\ UNCHANGED <<widgetvars, sessionvars, pc, calls, events, mapvars>>

ChunkNext == ChunkCall

ChunkSpec == ChunkInit /\ [][ChunkNext]_vars

(***************************************************************************)
(* TimeSpec: the timestamp of one caption segment (src/utube.py:135-136)   *)
(***************************************************************************)
Starts ==
    {10 * (3600 * h + 60 * m + sec) + f :
        h \in 0..MaxHour, m \in Minutes, sec \in Seconds, f \in Tenths}
    \cup {-25, -10, -9}

TimeInit ==
    /\ item_start \in Starts
    /\ time_str = <<>>
    /\ tpc = "call"
    /\ ChunkIdle
    /\ SessionInit

\* one pass of the loop body of get_transcript_cached
FormatItem ==
    /\ tpc = "call"
    /\ time_str' = format_time_str(int(item_start))
    /\ tpc' = "formatted"
    /\ UNCHANGED <<item_start, chunkvars>>
    /\ UNCHANGED <<widgetvars, sessionvars, pc, calls, events, mapvars>>

TimeNext == FormatItem

TimeSpec == TimeInit /\ [][TimeNext]_vars

(***************************************************************************)
(* Properties of analyze_transcript_parallel, checked under Spec           *)
(***************************************************************************)
\* C1: the analyses joined for the final call are in chunk index order,
\* whatever the completion order of the worker calls
C1_AnalysesInChunkOrder ==
    pc = "final" =>
        \A a, b \in 1..Len(chunk_analyses) :
            a < b => chunk_analyses[a].chunk < chunk_analyses[b].chunk

\* C2: at every instant at most 3 per-chunk generation calls are in flight,
\* and a chunk that is still queued while 3 are in flight has issued no call
C2_AtMostThreeInFlight ==
    /\ Cardinality(Running) <= 3
    /\ pc = "map" =>
           Len(calls) = Cardinality(DOMAIN status) - Cardinality(Queued)

C2_Witness ==
    /\ pc = "map"
    /\ Len(chunks) > 3
    /\ Cardinality(Running) = 3
    /\ Queued # {}

\* chunks whose backend call returned a text
Succeeded == {i \in DOMAIN replied : replied[i] = "text"}
Failed == {i \in DOMAIN replied : replied[i] = "raise"}

\* C3: when the final call is issued every chunk has been processed, and the
\* aggregate holds exactly the outputs of the chunks whose call succeeded,
\* each once, with nothing standing in for a failed chunk
C3_FailuresOmitted ==
    pc = "final" =>
        /\ AllCollected
        /\ Len(chunk_analyses) = Cardinality(Succeeded)
        /\ {chunk_analyses[k] : k \in 1..Len(chunk_analyses)}
               = {Text(CHUNK_PROMPT, current_video_id, i, "") : i \in Succeeded}

C3_Witness ==
    /\ pc = "final"
    /\ Failed # {}
    /\ Succeeded # {}
    /\ Len(chunk_analyses) < Len(chunks)

\* C4: the final generation call is never issued over zero chunk analyses
C4_NoFinalCallOnEmpty ==
    pc = "final" => chunk_analyses # <<>>

(***************************************************************************)
(* Properties of main, checked under Spec                                  *)
(***************************************************************************)
\* C8: a QA call that fails leaves the QA history unchanged; one that
\* succeeds appends exactly one entry at the end
C8_HistoryOnlyOnSuccess ==
    [][\A o \in Outcomes :
          QAReturn(o) =>
              /\ o = "raise" => qa_history' = qa_history
              /\ o = "text" =>
                     /\ Len(qa_history') = Len(qa_history) + 1
                     /\ SubSeq(qa_history', 1, Len(qa_history)) = qa_history
                     /\ qa_history'[Len(qa_history')].question = question
                     /\ Truthy(qa_history'[Len(qa_history')].answer)]_vars

\* C9: the step that makes another video id the current one leaves the QA
\* history empty
C9_HistoryClearedOnNewVideo ==
    [][current_video_id' # current_video_id => qa_history' = <<>>]_vars

\* C10: a present current summary was generated for the current video id
C10_SummaryOfCurrentVideo ==
    Truthy(current_summary) => current_summary.video = current_video_id

(***************************************************************************)
(* Properties of chunk_text_smarter, checked under ChunkSpec               *)
(***************************************************************************)
\* c is one sentence of text, as re_split cuts it
IsOneSentence(c, text) ==
    \E j \in 1..Len(re_split(text)) : c = Strip(re_split(text)[j])

\* C5: every returned chunk is at most max_length long, unless it is a
\* single sentence that is itself longer than max_length
C5_ChunkWithinBound ==
    cpc = "returned" =>
        \A k \in 1..Len(ret_chunks) :
            \/ Len(ret_chunks[k]) <= arg_max_length
            \/ IsOneSentence(ret_chunks[k], arg_text)

\* t is the chunks cs in order, with a run of spaces after each chunk
RECURSIVE Rebuilds(_, _)
Rebuilds(cs, t) ==
    IF cs = <<>>
    THEN t = <<>>
    ELSE LET c == Head(cs)
         IN  /\ Len(t) >= Len(c)
             /\ SubSeq(t, 1, Len(c)) = c
             /\ \E g \in 0..(Len(t) - Len(c)) :
                    /\ \A k \in 1..g : t[Len(c) + k] = " "
                    /\ Rebuilds(Tail(cs), SubSeq(t, Len(c) + g + 1, Len(t)))

\* C6: the returned chunks, concatenated in order with the spaces removed
\* between them put back, are the text
C6_ChunksRebuildText ==
    cpc = "returned" => Rebuilds(ret_chunks, arg_text)

\* C7: the empty text yields no chunk
C7_EmptyTextNoChunks ==
    (cpc = "returned" /\ arg_text = <<>>) => ret_chunks = <<>>

(***************************************************************************)
(* Properties of the fast and the detailed path of main, checked under     *)
(* Spec                                                                    *)
(***************************************************************************)
\* a video has been processed and its transcript fetch returned nothing
TranscriptUnavailable ==
    /\ pc = "idle"
    /\ youtube_link # NoVideo
    /\ current_video_id = youtube_link
    /\ current_transcript = NoneT

\* C11: from the TranscriptUnavailable state the fast-summary request can
\* be issued, and issuing it starts a generation call
C11_FastPathWhenUnavailable ==
    (TranscriptUnavailable /\ events < MaxEvents) =>
        ENABLED (ClickFast /\ pc' = "fast" /\ Len(calls') = 1)

\* C12: the detailed path runs only over a non-empty current transcript:
\* while analyze_transcript_parallel is running, the session has a
\* transcript and the chunks are the chunks of that transcript
C12_DetailedNeedsTranscript ==
    pc \in {"map", "final"} =>
        /\ current_transcript # NoneT
        /\ current_transcript # <<>>
        /\ current_transcript \in Seq(Alphabet)
        /\ chunks # <<>>

C12_Witness ==
    /\ pc = "map"
    /\ current_transcript # NoneT
    /\ Len(chunks) > 0

\* the fallback text of the fast path: the title of the video
C13_FallbackText(v) == get_video_title_cached(v)

\* the context the fast path is to use for transcript t of video v
C13_Context(t, v) ==
    IF t # NoneT /\ t # <<>> THEN t ELSE C13_FallbackText(v)

\* C13: in every state in which a video is current, a fast-summary request
\* issues exactly one generation call, whose context is the transcript when
\* that is non-empty and the fallback text otherwise, and does not enter
\* the segmenter or the map stage
C13_FastPathOneCall ==
    (pc = "idle" /\ youtube_link # NoVideo
         /\ current_video_id = youtube_link /\ events < MaxEvents) =>
        ENABLED (/\ ClickFast
                 /\ pc' = "fast"
                 /\ calls' = <<[prompt |-> FAST_SUMMARY_PROMPT,
                                text |-> C13_Context(current_transcript,
                                                     current_video_id)]>>
                 /\ chunks' = <<>>)

\* C14: a detailed run over n chunks of which at least one succeeds has
\* issued, when the final call is in flight, exactly one call per chunk and
\* then the final call, all chunk calls have resolved, and the context of
\* the final call is the collected analyses with a blank line between two
\* of them; no final call is issued while chunks are still being handled
C14_CallsOfDetailedRun ==
    /\ pc = "map" =>
           \A k \in 1..Len(calls) : calls[k].prompt = CHUNK_PROMPT
    /\ (pc = "final" /\ Succeeded # {}) =>
           LET n == Len(chunks)
               k == Cardinality(Succeeded)
           IN  /\ Len(calls) = n + 1
               /\ \A i \in 1..n : /\ calls[i].prompt = CHUNK_PROMPT
                                  /\ calls[i].text = chunks[i]
                                  /\ replied[i] # "pending"
               /\ calls[n + 1].prompt = FINAL_PROMPT
               /\ Len(calls[n + 1].text) = 2 * k - 1
               /\ \A j \in 1..(2 * k - 1) :
                      calls[n + 1].text[j] =
                          IF j % 2 = 0 THEN BlankLine
                          ELSE chunk_analyses[(j + 1) \div 2]

C14_Witness ==
    /\ pc = "final"
    /\ Cardinality(Succeeded) >= 2
    /\ Len(calls) = Len(chunks) + 1

\* C15: the k-th chunk handed to the main thread makes the progress bar show
\* k / len(chunks): every emitted value lies in (0, 1], is larger than the
\* value shown before, and the value shown when the final call is issued
\* is 1
C15_ProgressIncreasing ==
    /\ [][\A i \in DOMAIN status :
             Collect(i) =>
                 /\ progress'[2] = Len(chunks)
                 /\ progress'[1] = Cardinality({j \in DOMAIN status' :
                                        status'[j] = "collected"})
                 /\ progress[1] * progress'[2] < progress'[1] * progress[2]
                 /\ 0 < progress'[1]
                 /\ progress'[1] <= progress'[2]]_vars
    /\ [][(pc = "map" /\ pc' = "map" /\ progress' # progress) =>
             \E i \in DOMAIN status : Collect(i)]_vars
    /\ [](pc = "final" => progress[1] = progress[2])

C15_Witness ==
    /\ pc = "final"
    /\ Len(chunks) >= 3
    /\ progress = <<Len(chunks), Len(chunks)>>
    /\ Failed # {}

(***************************************************************************)
(* Termination of analyze_transcript_parallel, checked under FairSpec      *)
(***************************************************************************)
\* C16: when every backend call returns or raises, a detailed run gets to
\* the point where every chunk has been dispatched (no chunk is queued any
\* more), then to the point where every chunk call has resolved, issues
\* the final call, and analyze_transcript_parallel returns.  Within one run
\* a chunk never goes back to queued or running.
C16_MapStageTerminates ==
    /\ (pc = "map") ~> (pc = "map" /\ Queued = {})
    /\ (pc = "map") ~> (pc = "map" /\ Queued = {} /\ Running = {})
    /\ (pc = "map") ~> (pc = "final")
    /\ (pc = "final") ~> (pc \notin {"map", "final"})
    /\ [][pc = "map" /\ pc' = "map" =>
             \A i \in DOMAIN status :
                 /\ status[i] # "queued" => status'[i] # "queued"
                 /\ status[i] \in {"done", "collected"}
                        => status'[i] \in {"done", "collected"}]_vars

C16_Witness ==
    /\ pc = "final"
    /\ Len(chunks) > max_workers

(***************************************************************************)
(* Further properties checked under Spec                                   *)
(***************************************************************************)
\* C17: no chunk of the detailed run is the empty text, and no per-chunk
\* generation call is issued for an empty chunk
C17_NoEmptyChunk ==
    /\ \A k \in DOMAIN chunks : chunks[k] # <<>>
    /\ \A k \in 1..Len(calls) :
           calls[k].prompt = CHUNK_PROMPT => calls[k].text # <<>>

\* the downloads are on the page: lines 317-325 ran in the last script run
DownloadsOffered == pc = "idle" /\ QuestionRendered

\* C18: the Word document offered for download is the one built from the
\* current summary and the current QA history
C18_WordReflectsSession ==
    DownloadsOffered =>
        /\ youtube_link \in DOMAIN word_cache
        /\ word_cache[youtube_link] =
               create_word_document(current_summary,
                                    get_video_title_cached(youtube_link),
                                    youtube_link, qa_history)

(***************************************************************************)
(* Properties of the timestamps, checked under TimeSpec                    *)
(***************************************************************************)
Digits == {"0", "1", "2", "3", "4", "5", "6", "7", "8", "9"}

\* positions of the colons of a time_str
Colons(t) == {k \in DOMAIN t : t[k] = ":"}

\* the number written by a sequence of digits
RECURSIVE ParseNat(_)
ParseNat(ds) ==
    IF ds = <<>> THEN 0
    ELSE 10 * ParseNat(SubSeq(ds, 1, Len(ds) - 1))
             + (CHOOSE d \in 0..9 : Digit(d) = ds[Len(ds)])

IsNumber(ds) == ds # <<>> /\ \A k \in DOMAIN ds : ds[k] \in Digits

\* a field shows n with at least two digits and no more zeros than needed
Shows(ds, n) ==
    /\ IsNumber(ds)
    /\ ParseNat(ds) = n
    /\ Len(ds) >= 2
    /\ Len(ds) > 2 => ds[1] # "0"

\* C19: for a start offset that truncates to s >= 0 seconds the time_str is
\* [HH:MM:SS] with HH = s div 3600 (not wrapped at 24), MM = (s mod 3600)
\* div 60 and SS = s mod 60, each zero-padded to at least two digits, MM
\* and SS below 60; 3725 gives [01:02:05]
C19_TimestampFormat ==
    (tpc = "formatted" /\ int(item_start) >= 0) =>
        LET s == int(item_start)
            n == Len(time_str)
        IN  /\ n >= 10
            /\ time_str[1] = "[" /\ time_str[n] = "]"
            /\ Colons(time_str) = {n - 6, n - 3}
            /\ Shows(SubSeq(time_str, 2, n - 7), s \div 3600)
            /\ Shows(SubSeq(time_str, n - 5, n - 4), (s % 3600) \div 60)
            /\ Shows(SubSeq(time_str, n - 2, n - 1), s % 60)
            /\ ParseNat(SubSeq(time_str, n - 5, n - 4)) < 60
            /\ ParseNat(SubSeq(time_str, n - 2, n - 1)) < 60
            /\ s = 3725 =>
                   time_str = <<"[", "0", "1", ":", "0", "2", ":", "0", "5",
                                "]">>

\* a segment starting after more than a day, between two whole seconds
C19_Witness ==
    /\ tpc = "formatted"
    /\ int(item_start) >= 24 * 3600
    /\ item_start % 10 # 0
    /\ Len(time_str) = 10

====
